---- MODULE Spec2Model ----
(***************************************************************************)
(* The edit logger of src/src/extension.ts as a state machine: the Logger  *)
(* object's fields, the child processes it listens to, the log files on    *)
(* disk and the asynchronous writes in flight.  Every host callback        *)
(* (document changed, run command, process signal, timer, write callback)  *)
(* is one atomic action, as the host's event loop runs one callback at a   *)
(* time.                                                                   *)
(*                                                                         *)
(* Not modelled: timestamps, durations, cursor positions and line texts    *)
(* (values the host supplies and the code copies into records unread).     *)
(* Logger.logError has no caller in extension.ts and is not an action.     *)
(* Of two overlapping writes to one file only the order of completion is   *)
(* modelled, not a torn file.                                              *)
(***************************************************************************)
EXTENDS Naturals, Sequences, FiniteSets, TLC

VARIABLES
    configStudentId,   \* the host's configuration value Logger.studentId
    studentId,         \* Logger.studentId
    currentDocument,   \* Logger.currentDocument
    logFile,           \* Logger.logFile
    editLog,           \* Logger.editLog
    errorLog,          \* Logger.errorLog
    executionLog,      \* Logger.executionLog
    isSaving,          \* Logger.isSaving
    saveTimeout,       \* Logger.saveTimeout, with the time left on the timer
    currentExecution,  \* Logger.currentExecution
    processes,         \* the child processes spawned so far, by run
    disk,              \* the log files that exist, with their content
    pending,           \* fs.writeFile calls issued and not yet completed
    reported,          \* what the last callback gave to console.error
    uncaught,          \* history: the last callback ended by an exception
    keySaves,          \* history: scheduleSave calls made by logKeyInput
    hostTimers         \* the timers set by setTimeout, not fired, not cleared

vars == <<configStudentId, studentId, currentDocument, logFile, editLog,
          errorLog, executionLog, isSaving, saveTimeout, currentExecution,
          processes, disk, pending, reported, uncaught, keySaves,
          hostTimers>>

(***************************************************************************)
(* Bounds of the model.                                                    *)
(***************************************************************************)
MaxEdits == 2
MaxRuns == 2
MaxChunks == 1
MaxPending == 2
MaxKeys == 12
MaxText == 3
MaxBigEdits == 3
SplitRuns == 1
SessionEdits == 1

(***************************************************************************)
(* Program constants.                                                      *)
(***************************************************************************)
SaveDelayMs == 1000
SizeThreshold == 1048576
KeySaveEvery == 10

(***************************************************************************)
(* Texts.  A text is a sequence of tokens; LF is the line break and every  *)
(* other token is a fragment without a line break.  A value that may be a  *)
(* string, null or undefined is a record, so that values compare.          *)
(***************************************************************************)
LF == "\n"
Str(t) == [tag |-> "string", toks |-> t]
Null == [tag |-> "null", toks |-> <<>>]
Undefined == [tag |-> "undefined", toks |-> <<>>]

\* JavaScript truthiness of a string | null | undefined value.
Truthy(v) == v.tag = "string" /\ v.toks # <<>>

\* a || b
OrElse(a, b) == IF Truthy(a) THEN a ELSE b

\* String.prototype.split('\n'): the lines of a text, at least one.
RECURSIVE Split(_)
Split(t) ==
    IF t = <<>> THEN << <<>> >>
    ELSE IF Head(t) = LF THEN << <<>> >> \o Split(Tail(t))
    ELSE LET rest == Split(Tail(t))
         IN  << <<Head(t)>> \o Head(rest) >> \o Tail(rest)

\* Mutant of Join: the lines are joined without the line breaks.
RECURSIVE JoinConcat(_)
JoinConcat(lines) ==
    IF lines = <<>> THEN <<>> ELSE Head(lines) \o JoinConcat(Tail(lines))

\* Array.prototype.join('\n')
RECURSIVE Join(_)
Join(lines) ==
    IF lines = <<>> THEN <<>>
    ELSE IF Len(lines) = 1 THEN Head(lines)
    ELSE Head(lines) \o <<LF>> \o Join(Tail(lines))

(***************************************************************************)
(* Documents of the host.  Of a file name the code reads its base name,    *)
(* whether it contains '.logs', whether it ends in '.json' or '.py', and   *)
(* whether it contains the session suffix or a student prefix.             *)
(***************************************************************************)
SessionId == "session_20260101_000000"

DocInfo ==
    "/w/a.py" :> [languageId |-> "python", scheme |-> "file",
                  baseName |-> "a.py", dotLogs |-> FALSE, json |-> FALSE,
                  py |-> TRUE, sessionSuffix |-> FALSE, studentPrefix |-> "",
                  outputName |-> FALSE]
    @@ "/w/b.py" :> [languageId |-> "python", scheme |-> "file",
                  baseName |-> "b.py", dotLogs |-> FALSE, json |-> FALSE,
                  py |-> TRUE, sessionSuffix |-> FALSE, studentPrefix |-> "",
                  outputName |-> FALSE]
    @@ "/w/.logs/c.py" :> [languageId |-> "python", scheme |-> "file",
                  baseName |-> "c.py", dotLogs |-> TRUE, json |-> FALSE,
                  py |-> TRUE, sessionSuffix |-> FALSE, studentPrefix |-> "",
                  outputName |-> FALSE]
    @@ "/w/notes.txt" :> [languageId |-> "plaintext", scheme |-> "file",
                  baseName |-> "notes.txt", dotLogs |-> FALSE, json |-> FALSE,
                  py |-> FALSE, sessionSuffix |-> FALSE, studentPrefix |-> "",
                  outputName |-> FALSE]
    @@ "/w/.logs/anonymous_a.py_session_20260101_000000_part1.json" :>
                 [languageId |-> "json", scheme |-> "file",
                  baseName |-> "anonymous_a.py_session_20260101_000000_part1.json",
                  dotLogs |-> TRUE, json |-> TRUE,
                  py |-> FALSE, sessionSuffix |-> FALSE,
                  studentPrefix |-> "anonymous", outputName |-> FALSE]
    @@ "extension-output-logger-#1-Python Execution Log" :>
                 [languageId |-> "Log", scheme |-> "output",
                  baseName |-> "extension-output-logger-#1-Python Execution Log",
                  dotLogs |-> FALSE, json |-> FALSE,
                  py |-> FALSE, sessionSuffix |-> FALSE, studentPrefix |-> "",
                  outputName |-> TRUE]
    @@ "terminal-1" :>
                 [languageId |-> "plaintext", scheme |-> "terminal",
                  baseName |-> "terminal-1", dotLogs |-> FALSE, json |-> FALSE,
                  py |-> FALSE, sessionSuffix |-> FALSE, studentPrefix |-> "",
                  outputName |-> FALSE]

\* The files of the workspace; the log files and surfaces of the host.
Documents == {"/w/a.py", "/w/b.py", "/w/.logs/c.py", "/w/notes.txt"}
Surfaces == DOMAIN DocInfo \ Documents
PythonDocs == {"/w/a.py", "/w/b.py"}

(***************************************************************************)
(* Content changes of a document-changed event: the inserted text and the  *)
(* length of the replaced range.  "BIG" is a pasted text of about 1 MiB.   *)
(***************************************************************************)
\* Nominal byte counts of JSON.stringify(logData, null, 2): the object
\* without records, and one record without its texts.
EmptyLogBytes == 160
EntryBytes == 120

BigLength == SizeThreshold - EmptyLogBytes - EntryBytes

\* String.prototype.length
TextLength(t) ==
    CASE t = "" -> 0
      [] t = "x" -> 1
      [] t = "\n" -> 1
      [] t = "\r\n" -> 2
      [] t = "xy" -> 2
      [] t = "BIG" -> BigLength

Change(text, rangeLength) == [text |-> text, rangeLength |-> rangeLength]

(***************************************************************************)
(* The Logger's state as one record, so that a method is an operator from  *)
(* state to state and a handler is the composition of the methods it       *)
(* calls.  thrown: an exception is propagating.                            *)
(***************************************************************************)
NoLogFile == [folder |-> "", studentId |-> "", baseName |-> "", sessionId |-> ""]
NoTimeout == [state |-> "null", left |-> 0]
NoExecution == [active |-> FALSE, run |-> 0, file |-> "", process |-> 0,
                output |-> <<>>, error |-> <<>>]

State ==
    [configStudentId |-> configStudentId, studentId |-> studentId,
     currentDocument |-> currentDocument, logFile |-> logFile,
     editLog |-> editLog, errorLog |-> errorLog,
     executionLog |-> executionLog, isSaving |-> isSaving,
     saveTimeout |-> saveTimeout, currentExecution |-> currentExecution,
     processes |-> processes, disk |-> disk, pending |-> pending,
     keySaves |-> keySaves, hostTimers |-> hostTimers,
     reported |-> "", thrown |-> FALSE]

Commit(s) ==
    /\ configStudentId' = s.configStudentId
    /\ studentId' = s.studentId
    /\ currentDocument' = s.currentDocument
    /\ logFile' = s.logFile
    /\ editLog' = s.editLog
    /\ errorLog' = s.errorLog
    /\ executionLog' = s.executionLog
    /\ isSaving' = s.isSaving
    /\ saveTimeout' = s.saveTimeout
    /\ currentExecution' = s.currentExecution
    /\ processes' = s.processes
    /\ disk' = s.disk
    /\ pending' = s.pending
    /\ keySaves' = s.keySaves
    /\ hostTimers' = s.hostTimers
    /\ reported' = s.reported
    /\ uncaught' = s.thrown

\* vscode.workspace.getConfiguration('Logger').get('studentId') || 'anonymous'
ConfiguredStudentId(config) == IF config = "" THEN "anonymous" ELSE config

(***************************************************************************)
(* Persistence: saveLog, scheduleSave and the files.                       *)
(***************************************************************************)
\* The object saveLog serializes.
LogData(s) ==
    [studentId |-> s.studentId, sessionId |-> SessionId,
     fileName |-> s.currentDocument, editLog |-> s.editLog,
     errorLog |-> s.errorLog, executionLog |-> s.executionLog]

RECURSIVE EditBytes(_)
EditBytes(log) ==
    IF log = <<>> THEN 0
    ELSE EntryBytes + TextLength(Head(log).text) + EditBytes(Tail(log))

RECURSIVE ErrorBytes(_)
ErrorBytes(log) ==
    IF log = <<>> THEN 0
    ELSE EntryBytes + Len(Head(log).message.toks) + Len(Head(log).stack.toks)
         + ErrorBytes(Tail(log))

RECURSIVE ExecutionBytes(_)
ExecutionBytes(log) ==
    IF log = <<>> THEN 0
    ELSE EntryBytes + Len(Head(log).output.toks) + Len(Head(log).error.toks)
         + ExecutionBytes(Tail(log))

\* fs.statSync(path).size of a file holding JSON.stringify(data, null, 2)
SerializedBytes(data) ==
    EmptyLogBytes + EditBytes(data.editLog) + ErrorBytes(data.errorLog)
    + ExecutionBytes(data.executionLog)

\* path.join(dirName, `${baseName}_part${partNumber}${ext}`)
PartPath(file, partNumber) == [file |-> file, part |-> partNumber]

\* Mutant of SelectPart: a part that has reached the threshold is full.
RECURSIVE SelectPartAtLeast(_, _, _)
SelectPartAtLeast(files, file, partNumber) ==
    IF /\ PartPath(file, partNumber) \in DOMAIN files
       /\ SerializedBytes(files[PartPath(file, partNumber)]) >= SizeThreshold
    THEN SelectPartAtLeast(files, file, partNumber + 1)
    ELSE partNumber

\* The while loop of saveLog: the first part that does not exist or is not
\* larger than the threshold.
RECURSIVE SelectPart(_, _, _)
SelectPart(files, file, partNumber) ==
    IF /\ PartPath(file, partNumber) \in DOMAIN files
       /\ SerializedBytes(files[PartPath(file, partNumber)]) > SizeThreshold
    THEN SelectPart(files, file, partNumber + 1)
    ELSE partNumber

\* Mutant of SaveLog: no finally, the flag stays set after a caught failure.
SaveLogKeepsFlag(s, io) ==
    IF s.logFile = NoLogFile \/ s.isSaving THEN s
    ELSE LET saving == [s EXCEPT !.isSaving = TRUE]
             logFilePath == PartPath(s.logFile, SelectPart(s.disk, s.logFile, 1))
         IN  IF io = "stat_throws" /\ PartPath(s.logFile, 1) \in DOMAIN s.disk
             THEN [saving EXCEPT !.reported = "Failed to save log"]
             ELSE [s EXCEPT !.pending =
                      @ \cup {[path |-> logFilePath, data |-> LogData(saving)]}]

\* Mutant of SaveLog: the buffer of edits is emptied once it is written.
SaveLogAndClear(s, io) ==
    IF s.logFile = NoLogFile \/ s.isSaving THEN s
    ELSE LET logFilePath == PartPath(s.logFile, SelectPart(s.disk, s.logFile, 1))
         IN  IF io = "stat_throws" /\ PartPath(s.logFile, 1) \in DOMAIN s.disk
             THEN [s EXCEPT !.reported = "Failed to save log"]
             ELSE [s EXCEPT !.pending =
                      @ \cup {[path |-> logFilePath, data |-> LogData(s)]},
                            !.editLog = <<>>]

\* Mutant of SaveLog: a flush while a write is in flight does nothing.
SaveLogSkipsInFlight(s, io) ==
    IF s.logFile = NoLogFile \/ s.isSaving \/ s.pending # {} THEN s
    ELSE LET logFilePath == PartPath(s.logFile, SelectPart(s.disk, s.logFile, 1))
         IN  IF io = "stat_throws" /\ PartPath(s.logFile, 1) \in DOMAIN s.disk
             THEN [s EXCEPT !.reported = "Failed to save log"]
             ELSE [s EXCEPT !.pending =
                      @ \cup {[path |-> logFilePath, data |-> LogData(s)]}]

\* io = "stat_throws": fs.statSync throws on the first part (it exists).
SaveLog(s, io) ==
    IF s.logFile = NoLogFile \/ s.isSaving THEN s
    ELSE LET saving == [s EXCEPT !.isSaving = TRUE]
             logData == LogData(saving)
             logFilePath == PartPath(s.logFile, SelectPart(s.disk, s.logFile, 1))
             tried ==
                 IF io = "stat_throws" /\ PartPath(s.logFile, 1) \in DOMAIN s.disk
                 THEN \* catch: console.error
                      [saving EXCEPT !.reported = "Failed to save log"]
                 ELSE [saving EXCEPT !.pending =
                          @ \cup {[path |-> logFilePath, data |-> logData]}]
         IN  \* finally
             [tried EXCEPT !.isSaving = FALSE]

\* Mutant of ScheduleSave: the timer set before is not cleared.
ScheduleSaveNoClear(s) ==
    [s EXCEPT !.saveTimeout = [state |-> "armed", left |-> SaveDelayMs],
              !.hostTimers = @ + 1]

\* clearTimeout of the timer in saveTimeout, which removes it if it has not
\* fired, then setTimeout.
ScheduleSave(s) ==
    LET cleared == IF s.saveTimeout.state = "armed"
                   THEN s.hostTimers - 1 ELSE s.hostTimers
    IN  [s EXCEPT !.saveTimeout = [state |-> "armed", left |-> SaveDelayMs],
                  !.hostTimers = cleared + 1]

(***************************************************************************)
(* Documents and edits.                                                    *)
(***************************************************************************)
\* Mutant of ShouldIgnoreDocument: no document is ignored.
ShouldIgnoreDocumentNever(s, fileName) == FALSE

ShouldIgnoreDocument(s, fileName) ==
    LET doc == DocInfo[fileName]
        isLogFile ==
            \/ doc.dotLogs
            \/ doc.json /\ (doc.sessionSuffix \/ doc.studentPrefix = s.studentId)
        isOutputOrTerminal ==
            \/ doc.scheme = "output"
            \/ doc.scheme = "terminal"
            \/ doc.outputName
    IN  isLogFile \/ isOutputOrTerminal

OnDocumentChange(s, fileName, io) ==
    IF ShouldIgnoreDocument(s, fileName) THEN s
    ELSE IF s.currentDocument # fileName
    THEN SaveLog([s EXCEPT !.currentDocument = fileName,
                           !.logFile = [folder |-> "/w/.logs",
                                        studentId |-> s.studentId,
                                        baseName |-> DocInfo[fileName].baseName,
                                        sessionId |-> SessionId]], io)
    ELSE s

\* target: history, the current document when the record was appended.
LogEdit(s, change) ==
    LET editInfo ==
            [kind |-> "edit", text |-> change.text,
             operation |-> IF change.text = "" THEN "delete"
                           ELSE IF change.rangeLength > 0 /\ change.text # ""
                                THEN "replace" ELSE "insert",
             key |-> "", target |-> s.currentDocument]
    IN  ScheduleSave([s EXCEPT !.editLog = Append(@, editInfo)])

\* Mutant of LogKeyInput: every key schedules a save.
LogKeyInputAlways(s, key, hasSelection) ==
    IF ~hasSelection THEN s
    ELSE LET keyInfo == [kind |-> "key", text |-> "", operation |-> "",
                         key |-> key, target |-> s.currentDocument]
         IN  ScheduleSave([s EXCEPT !.editLog = Append(@, keyInfo),
                                    !.keySaves = @ + 1])

LogKeyInput(s, key, hasSelection) ==
    IF ~hasSelection THEN s
    ELSE LET keyInfo == [kind |-> "key", text |-> "", operation |-> "",
                         key |-> key, target |-> s.currentDocument]
             pushed == [s EXCEPT !.editLog = Append(@, keyInfo)]
         IN  IF Len(pushed.editLog) % KeySaveEvery = 0
             THEN ScheduleSave([pushed EXCEPT !.keySaves = @ + 1])
             ELSE pushed

\* The body of contentChanges.forEach in the onDidChangeTextDocument handler.
RecordChange(s, change, hasSelection) ==
    IF TextLength(change.text) >= 1 /\ change.rangeLength > 0
    THEN LogEdit(s, change)
    ELSE IF TextLength(change.text) = 1 /\ change.rangeLength = 0
    THEN LogKeyInput(s, change.text, hasSelection)
    ELSE IF change.text = "" /\ change.rangeLength = 1
    THEN LogKeyInput(s, "Delete", hasSelection)
    ELSE IF change.text = "\n" \/ change.text = "\r\n"
    THEN LogKeyInput(s, "Enter", hasSelection)
    ELSE s

RECURSIVE RecordChanges(_, _, _)
RecordChanges(s, changes, hasSelection) ==
    IF changes = <<>> THEN s
    ELSE RecordChanges(RecordChange(s, Head(changes), hasSelection),
                       Tail(changes), hasSelection)

\* The onDidChangeTextDocument handler.
DidChangeTextDocument(s, fileName, changes, hasSelection, io) ==
    IF DocInfo[fileName].languageId # "python" \/ ShouldIgnoreDocument(s, fileName)
    THEN s
    ELSE RecordChanges(OnDocumentChange(s, fileName, io), changes, hasSelection)

(***************************************************************************)
(* Executions.  A record of executionLog or errorLog carries run, the run  *)
(* it was appended for (history).                                          *)
(***************************************************************************)
Num(n) == [tag |-> "number", val |-> n]

\* code: fs.existsSync(filePath) ? fs.readFileSync(filePath, 'utf8') : ''
\* read = "ok": the file is read; "missing": it does not exist; "throws":
\* it exists and readFileSync throws.
CodeSnapshot(filePath, read) == IF read = "ok" THEN Str(<<filePath>>) ELSE Str(<<>>)

LogPythonError(s, filePath, errorMessage, read) ==
    LET errorLines == Split(errorMessage)
        errorInfo ==
            IF Len(errorLines) > 1
            THEN [message |-> Str(errorLines[1]),
                  stack |-> Str(Join(SubSeq(errorLines, 2, Len(errorLines)))),
                  code |-> CodeSnapshot(filePath, read),
                  event |-> "python_execution_error", language |-> "python",
                  run |-> s.currentExecution.run]
            ELSE [message |-> Str(errorMessage), stack |-> Null,
                  code |-> CodeSnapshot(filePath, read),
                  event |-> "python_execution_error", language |-> "python",
                  run |-> s.currentExecution.run]
    IN  IF read = "throws" THEN [s EXCEPT !.thrown = TRUE]
        ELSE [s EXCEPT !.errorLog = Append(@, errorInfo)]

FinishExecution(s, exitCode, errorMessage, read) ==
    IF ~s.currentExecution.active THEN s
    ELSE LET exec == s.currentExecution
             executionInfo ==
                 [event |-> "execution_end", file |-> exec.file,
                  language |-> "python", output |-> Str(exec.output),
                  error |-> OrElse(Str(exec.error), errorMessage),
                  exitCode |-> Num(exitCode), run |-> exec.run]
             pushed == [s EXCEPT !.executionLog = Append(@, executionInfo)]
             text == OrElse(OrElse(Str(exec.error), errorMessage),
                            Str(<<"Unknown error">>))
             logged ==
                 IF exitCode # 0 \/ exec.error # <<>> \/ Truthy(errorMessage)
                 THEN LogPythonError(pushed, exec.file, text.toks, read)
                 ELSE pushed
         IN  IF logged.thrown THEN logged
             ELSE ScheduleSave([logged EXCEPT !.currentExecution = NoExecution])

\* process.kill() of the superseded process only sends a signal: its 'exit'
\* arrives later, as any other.  textDocuments holds every document.
StartPythonExecution(s, filePath, read, io) ==
    LET finished ==
            IF s.currentExecution.active
            THEN FinishExecution(s, 1, Str(<<"Aborted by new execution">>), read)
            ELSE s
        started ==
            [finished EXCEPT !.currentExecution =
                [active |-> TRUE, run |-> Len(s.processes) + 1,
                 file |-> filePath, process |-> 0,
                 output |-> <<>>, error |-> <<>>]]
        switched == OnDocumentChange(started, filePath, io)
        executionInfo ==
            [event |-> "execution_start", file |-> filePath,
             language |-> "python", output |-> Undefined, error |-> Undefined,
             exitCode |-> Undefined, run |-> started.currentExecution.run]
    IN  IF finished.thrown THEN finished
        ELSE ScheduleSave([switched EXCEPT !.executionLog = Append(@, executionInfo)])

\* The listeners of process pid are those of the entry processes[pid].
SetPythonProcess(s, pid) ==
    IF ~s.currentExecution.active THEN s
    ELSE [s EXCEPT !.currentExecution.process = pid,
                   !.processes[pid].listening = TRUE]

\* cp.spawn: a new child process, nothing delivered yet.
Spawn(s) ==
    [s EXCEPT !.processes =
        Append(@, [listening |-> FALSE, exited |-> FALSE, errored |-> FALSE,
                   chunks |-> 0])]

\* PythonRunner.runPythonFile: no await in it, so one callback.  exists:
\* fs.existsSync(filePath).
RunPythonFile(s, filePath, exists, read, io) ==
    IF ~exists \/ ~DocInfo[filePath].py THEN s
    ELSE LET started == StartPythonExecution(s, filePath, read, io)
         IN  IF started.thrown
             THEN \* catch (error): a message is shown
                  [started EXCEPT !.thrown = FALSE]
             ELSE SetPythonProcess(Spawn(started), Len(started.processes) + 1)

\* process.stdout.on('data')
OnStdoutData(s, pid, output) ==
    LET counted == [s EXCEPT !.processes[pid].chunks = @ + 1]
    IN  IF s.currentExecution.active
        THEN [counted EXCEPT !.currentExecution.output = @ \o output]
        ELSE counted

\* process.stderr.on('data')
OnStderrData(s, pid, error) ==
    LET counted == [s EXCEPT !.processes[pid].chunks = @ + 1]
    IN  IF s.currentExecution.active
        THEN [counted EXCEPT !.currentExecution.error = @ \o error]
        ELSE counted

\* process.on('exit'): code is a number or "null".
OnExit(s, pid, code, read) ==
    FinishExecution([s EXCEPT !.processes[pid].exited = TRUE],
                    IF code = Null THEN 0 ELSE code.val, Undefined, read)

\* process.on('error')
OnError(s, pid, message, read) ==
    LET marked == [s EXCEPT !.processes[pid].errored = TRUE]
        noted == IF s.currentExecution.active
                 THEN [marked EXCEPT !.currentExecution.error = @ \o message]
                 ELSE marked
    IN  FinishExecution(noted, 1, Str(message), read)

\* Mutant of SetStudentId: a new student id empties the logs.
SetStudentIdResets(s, input) ==
    IF input = "" THEN s
    ELSE [s EXCEPT !.configStudentId = input,
                   !.studentId = ConfiguredStudentId(input),
                   !.editLog = <<>>, !.errorLog = <<>>, !.executionLog = <<>>]

\* The setStudentId command: the input box, the configuration update and
\* loadStudentId.
SetStudentId(s, input) ==
    IF input = "" THEN s
    ELSE [s EXCEPT !.configStudentId = input,
                   !.studentId = ConfiguredStudentId(input)]

(***************************************************************************)
(* The state after new Logger(): the configuration holds no student id.    *)
(***************************************************************************)
Init ==
    /\ configStudentId = ""
    /\ studentId = ConfiguredStudentId("")
    /\ currentDocument = ""
    /\ logFile = NoLogFile
    /\ editLog = <<>>
    /\ errorLog = <<>>
    /\ executionLog = <<>>
    /\ isSaving = FALSE
    /\ saveTimeout = NoTimeout
    /\ currentExecution = NoExecution
    /\ processes = <<>>
    /\ disk = <<>>
    /\ pending = {}
    /\ reported = ""
    /\ uncaught = FALSE
    /\ keySaves = 0
    /\ hostTimers = 0

(***************************************************************************)
(* Inputs of the callbacks.                                                *)
(***************************************************************************)
IoOutcomes == {"ok", "stat_throws"}
ReadOutcomes == {"ok", "missing", "throws"}
ExitCodes == {Null, Num(0), Num(1)}
StdoutChunks == {<<"out">>}
StderrChunks == {<<"Traceback", LF, "ValueError">>}
ErrorMessages == {<<"spawn ENOENT">>}
StudentIdInputs == {"", "s1"}

\* A document-changed event: its contentChanges, and whether the active
\* editor has a selection.
Event(changes, hasSelection) == [changes |-> changes, hasSelection |-> hasSelection]

\* No change (the dirty state changed), a key, a key with no active
\* editor, a replacement, a paste.
MainEvents ==
    {Event(<<>>, TRUE), Event(<<Change("x", 0)>>, TRUE),
     Event(<<Change("x", 0)>>, FALSE), Event(<<Change("xy", 1)>>, TRUE),
     Event(<<Change("xy", 0)>>, TRUE)}

\* The step of time, in ms.
TickMs == 500

\* The writes the environment lets overlap.
MayFlush == Cardinality(pending) < MaxPending

(***************************************************************************)
(* Actions: one per callback, over the inputs given.                       *)
(***************************************************************************)
TextDocumentChanged(docs, events, limit, ios) ==
    \E fileName \in docs, e \in events, io \in ios :
        /\ Len(editLog) + Len(e.changes) <= limit
        /\ MayFlush
        /\ Commit(DidChangeTextDocument(State, fileName, e.changes,
                                        e.hasSelection, io))

RunCommand(docs, reads, ios, limit) ==
    \E fileName \in docs, exists \in BOOLEAN, read \in reads, io \in ios :
        /\ Len(processes) < limit /\ Len(executionLog) < 2 * limit
        /\ MayFlush
        /\ Commit(RunPythonFile(State, fileName, exists, read, io))

StdoutData ==
    \E pid \in 1..Len(processes), chunk \in StdoutChunks :
        /\ processes[pid].listening /\ ~processes[pid].exited
        /\ processes[pid].chunks < MaxChunks
        /\ Commit(OnStdoutData(State, pid, chunk))

StderrData(chunks, limit) ==
    \E pid \in 1..Len(processes), chunk \in chunks :
        /\ processes[pid].listening /\ ~processes[pid].exited
        /\ processes[pid].chunks < limit
        /\ Commit(OnStderrData(State, pid, chunk))

ProcessExit(reads) ==
    \E pid \in 1..Len(processes), code \in ExitCodes, read \in reads :
        /\ processes[pid].listening /\ ~processes[pid].exited
        /\ Commit(OnExit(State, pid, code, read))

ProcessError(reads) ==
    \E pid \in 1..Len(processes), message \in ErrorMessages, read \in reads :
        /\ processes[pid].listening /\ ~processes[pid].errored
        /\ Commit(OnError(State, pid, message, read))

StudentIdCommand ==
    \E input \in StudentIdInputs : Commit(SetStudentId(State, input))

\* The delay of the armed timer elapses.
DelayElapses ==
    /\ saveTimeout.state = "armed" /\ saveTimeout.left > 0
    /\ Commit([State EXCEPT !.saveTimeout.left = 0])

\* A part of the delay of the armed timer elapses.
TimePasses ==
    /\ saveTimeout.state = "armed" /\ saveTimeout.left > 0
    /\ Commit([State EXCEPT !.saveTimeout.left =
                  IF @ > TickMs THEN @ - TickMs ELSE 0])

\* The setTimeout callback of scheduleSave.
TimerFires(ios) ==
    \E io \in ios :
        /\ saveTimeout.state = "armed" /\ saveTimeout.left = 0
        /\ MayFlush
        /\ Commit(SaveLog([State EXCEPT !.saveTimeout.state = "fired",
                                         !.hostTimers = @ - 1], io))

\* The callback of fs.writeFile: the file holds the data (ok), or err is
\* reported by console.error.
WriteCompletes(oks) ==
    \E w \in pending, ok \in oks :
        Commit([State EXCEPT
            !.pending = @ \ {w},
            !.disk = IF ok THEN (w.path :> w.data) @@ @ ELSE @,
            !.reported = IF ok THEN "" ELSE "write error"])

(***************************************************************************)
(* The whole extension.                                                    *)
(***************************************************************************)
Next ==
    \/ TextDocumentChanged(Documents, MainEvents, MaxEdits, IoOutcomes)
    \/ RunCommand(Documents, ReadOutcomes, IoOutcomes, MaxRuns)
    \/ StdoutData
    \/ StderrData(StderrChunks, MaxChunks)
    \/ ProcessExit(ReadOutcomes)
    \/ ProcessError(ReadOutcomes)
    \/ StudentIdCommand
    \/ DelayElapses
    \/ TimerFires(IoOutcomes)
    \/ WriteCompletes(BOOLEAN)

Spec == Init /\ [][Next]_vars

(***************************************************************************)
(* The log store alone: document events, the timer and the writes.         *)
(***************************************************************************)
\* No change, a replacement, a paste (which the handler does not record).
StoreEvents ==
    {Event(<<>>, TRUE), Event(<<Change("xy", 1)>>, TRUE),
     Event(<<Change("xy", 0)>>, TRUE)}

NextStore ==
    \/ TextDocumentChanged(Documents, StoreEvents, MaxEdits, IoOutcomes)
    \/ DelayElapses
    \/ TimerFires(IoOutcomes)
    \/ WriteCompletes(BOOLEAN)

SpecStore == Init /\ [][NextStore]_vars

\* The log store when no write and no stat fails.
NextReliable ==
    \/ TextDocumentChanged(Documents, StoreEvents, MaxEdits, {"ok"})
    \/ DelayElapses
    \/ TimerFires({"ok"})
    \/ WriteCompletes({TRUE})

SpecReliable == Init /\ [][NextReliable]_vars

(***************************************************************************)
(* The execution tracker alone: runs of one file and the signals of their  *)
(* processes.                                                              *)
(***************************************************************************)
NextRun ==
    \/ RunCommand({"/w/a.py", "/w/notes.txt"}, ReadOutcomes, {"ok"}, MaxRuns)
    \/ StdoutData
    \/ StderrData(StderrChunks, MaxChunks)
    \/ ProcessExit(ReadOutcomes)
    \/ ProcessError(ReadOutcomes)

SpecRun == Init /\ [][NextRun]_vars

(***************************************************************************)
(* Typing: single-character insertions into one Python file.               *)
(***************************************************************************)
TypingEvents ==
    {Event(<<Change("x", 0)>>, TRUE), Event(<<Change("\n", 0)>>, TRUE)}

NextTyping ==
    \/ TextDocumentChanged({"/w/a.py"}, TypingEvents, MaxKeys, {"ok"})
    \/ DelayElapses
    \/ TimerFires({"ok"})
    \/ WriteCompletes({TRUE})

SpecTyping == Init /\ [][NextTyping]_vars

(***************************************************************************)
(* Rotation: replacements in one file with a text of about 1 MiB, so that  *)
(* a part reaches and passes the threshold.                                *)
(***************************************************************************)
RotateEvents ==
    {Event(<<>>, TRUE), Event(<<Change("BIG", 1)>>, TRUE),
     Event(<<Change("xy", 1)>>, TRUE)}

NextRotate ==
    \/ TextDocumentChanged({"/w/a.py"}, RotateEvents, MaxBigEdits, {"ok"})
    \/ DelayElapses
    \/ TimerFires({"ok"})
    \/ WriteCompletes({TRUE})

SpecRotate == Init /\ [][NextRotate]_vars

(***************************************************************************)
(* Error texts: the error output of a run arrives token by token.          *)
(***************************************************************************)
SplitChunks == {<<LF>>, <<"a">>, <<"b">>}

NextSplit ==
    \/ RunCommand({"/w/a.py"}, {"ok"}, {"ok"}, SplitRuns)
    \/ StderrData(SplitChunks, MaxText)
    \/ ProcessExit({"ok"})

SpecSplit == Init /\ [][NextSplit]_vars

(***************************************************************************)
(* Properties.                                                             *)
(***************************************************************************)
\* No timer is pending and no write is in flight: without a further host
\* event nothing more happens.
Quiescent == saveTimeout.state # "armed" /\ pending = {}

\* The parts of the current log file on disk.
CurrentParts == {p \in DOMAIN disk : p.file = logFile}

\* C1: once the debounce window has elapsed with no further activity and
\* every write has completed, the persisted log file of the current target
\* holds the serialization of the full in-memory state.  (Checked where no
\* write fails and every append is one that calls scheduleSave.)
C1_PersistedEqualsMemory ==
    (Quiescent /\ logFile # NoLogFile /\ \A i \in 1..Len(editLog) : editLog[i].kind = "edit")
        => \E p \in CurrentParts : disk[p] = LogData(State)

\* C4: no record appended while one document was the target is written
\* into a log file named for another document, or under another fileName.
C4_RecordsUnderTheirTarget ==
    \A p \in DOMAIN disk : \A i \in 1..Len(disk[p].editLog) :
        /\ DocInfo[disk[p].editLog[i].target].baseName = p.file.baseName
        /\ disk[p].editLog[i].target = disk[p].fileName

\* The run command reaches startPythonExecution: the file exists and is
\* a .py file.
StartCalled ==
    \E fileName \in PythonDocs, read \in ReadOutcomes, io \in IoOutcomes :
        Commit(RunPythonFile(State, fileName, TRUE, read, io))

\* C2: whenever startPythonExecution is called while a run is Running,
\* exactly one execution_end record for the superseded run is appended,
\* directly followed by the execution_start record of the new run.
C2_SupersededEndThenStart ==
    [][(currentExecution.active /\ StartCalled) =>
        LET n == Len(executionLog)
        IN  /\ Len(executionLog') = n + 2
            /\ SubSeq(executionLog', 1, n) = executionLog
            /\ executionLog'[n + 1].event = "execution_end"
            /\ executionLog'[n + 1].run = currentExecution.run
            /\ executionLog'[n + 2].event = "execution_start"
            /\ executionLog'[n + 2].run = currentExecution'.run
            /\ currentExecution'.run # currentExecution.run]_vars

\* The execution_end records appended for run r.
EndRecords(r) ==
    {i \in 1..Len(executionLog) :
        executionLog[i].event = "execution_end" /\ executionLog[i].run = r}

\* The second of the two signals 'exit' and 'error' of process pid is
\* delivered in this step.
SecondSignal(pid) ==
    /\ processes[pid].exited # processes[pid].errored
    /\ processes'[pid].exited /\ processes'[pid].errored

\* C3: finish is idempotent per run: when both 'exit' and 'error' of a
\* run's process are delivered, in either order, exactly one execution_end
\* record is appended for that run, and the second signal changes no log
\* and schedules nothing.
C3_FinishIdempotent ==
    /\ [](\A r \in 1..Len(processes) :
            (processes[r].exited /\ processes[r].errored)
                => Cardinality(EndRecords(r)) = 1)
    /\ [][\A pid \in 1..Len(processes) :
            SecondSignal(pid) =>
                UNCHANGED <<editLog, errorLog, executionLog, saveTimeout>>]_vars

\* The execution tracker when no read of a source file throws.
NextRunReadable ==
    \/ RunCommand({"/w/a.py", "/w/notes.txt"}, {"ok", "missing"}, {"ok"}, MaxRuns)
    \/ StdoutData
    \/ StderrData(StderrChunks, MaxChunks)
    \/ ProcessExit({"ok", "missing"})
    \/ ProcessError({"ok", "missing"})

SpecRunReadable == Init /\ [][NextRunReadable]_vars

\* Part n of the file holds exactly the threshold and every part before it
\* is larger.
BoundaryAt(file, n) ==
    /\ PartPath(file, n) \in DOMAIN disk
    /\ SerializedBytes(disk[PartPath(file, n)]) = SizeThreshold
    /\ \A k \in 1..(n - 1) :
        /\ PartPath(file, k) \in DOMAIN disk
        /\ SerializedBytes(disk[PartPath(file, k)]) > SizeThreshold

\* Parts 1..n of the file are all larger than the threshold.
FullUpTo(file, n) ==
    \A k \in 1..n :
        /\ PartPath(file, k) \in DOMAIN disk
        /\ SerializedBytes(disk[PartPath(file, k)]) > SizeThreshold

PartNumbers == 1..(Cardinality(DOMAIN disk) + 1)

C6_KeysPersistedWhenQuiet ==
    Quiescent =>
        \A i \in 1..Len(editLog) :
            editLog[i].kind = "key" =>
                \E p \in DOMAIN disk :
                    /\ Len(disk[p].editLog) >= i
                    /\ disk[p].editLog[i] = editLog[i]

\* This step is saveLog alone (the timer's callback) or the callback of a
\* write, and it reported a failure.
SaveFailed ==
    /\ reported' # ""
    /\ \/ saveTimeout.state = "armed" /\ saveTimeout'.state = "fired"
       \/ pending' # pending /\ pending' \subseteq pending

\* What saveLog would do now.
FlushNow == SaveLog(State, "ok")

\* C7: a failing log write, synchronous or reported by the write callback,
\* does not propagate, and leaves the three logs, the log target and the
\* saving flag as they were, so that the next flush writes the full
\* current state.
C7_FailedWriteLeavesState ==
    [][SaveFailed =>
        /\ UNCHANGED <<editLog, errorLog, executionLog, logFile, isSaving,
                       currentDocument, studentId>>
        /\ ~uncaught'
        /\ \E w \in FlushNow'.pending :
            w.path.file = logFile /\ w.data = LogData(State)]_vars

\* The last callback was a write callback reporting an error.
C7_Witness == reported = "write error" /\ editLog # <<>> /\ pending = {}

\* This step is the timer's callback: saveLog alone.
TimerStep == saveTimeout.state = "armed" /\ saveTimeout'.state = "fired"

HasBreak(t) == \E i \in 1..Len(t) : t[i] = LF
FirstBreak(t) ==
    CHOOSE i \in 1..Len(t) : t[i] = LF /\ \A j \in 1..(i - 1) : t[j] # LF

\* The last execution_end record of a log.
LastEnd(log) ==
    log[CHOOSE i \in 1..Len(log) :
            /\ log[i].event = "execution_end"
            /\ \A j \in (i + 1)..Len(log) : log[j].event # "execution_end"]

\* C9: the derived ErrorRecord of an error text with a line break has the
\* text before the first line break as message and the rest after it as
\* stack; of a text without line break, the text as message and stack null.
C9_ErrorTextSplit ==
    [][Len(errorLog') = Len(errorLog) + 1 =>
        LET r == errorLog'[Len(errorLog')]
            text == OrElse(LastEnd(executionLog').error,
                           Str(<<"Unknown error">>)).toks
        IN  IF HasBreak(text)
            THEN /\ r.message = Str(SubSeq(text, 1, FirstBreak(text) - 1))
                 /\ r.stack = Str(SubSeq(text, FirstBreak(text) + 1, Len(text)))
            ELSE r.message = Str(text) /\ r.stack = Null]_vars

\* An error record whose stack itself has a line break.
C9_Witness ==
    \E i \in 1..Len(errorLog) :
        errorLog[i].stack # Null /\ HasBreak(errorLog[i].stack.toks)

\* This step is a single-character insertion into the Python file.
Insertion ==
    \E e \in TypingEvents :
        Commit(DidChangeTextDocument(State, "/w/a.py", e.changes, TRUE, "ok"))

\* C10 (as amended): from an empty edit log, every single-character
\* insertion appends one KeyRecord, so 12 insertions append 12, and the
\* every-10th-append rule has then scheduled exactly 1 flush, at keystroke
\* 10.
C10_TwelveKeysOneSave ==
    /\ [](/\ \A i \in 1..Len(editLog) : editLog[i].kind = "key"
          /\ Len(editLog) < 10 => keySaves = 0
          /\ Len(editLog) \in 10..19 => keySaves = 1
          /\ Len(editLog) = 12 => keySaves = 1)
    /\ [][Insertion => Len(editLog') = Len(editLog) + 1]_vars

\* C10 (as claimed): after the 12 insertions the rule has scheduled
\* exactly 2 flushes.
C10_TwelveKeysTwoSaves == Len(editLog) = 12 => keySaves = 2

\* Twelve keys typed.
C10_Witness == Len(editLog) = 12 /\ keySaves = 1 /\ editLog[12].kind = "key"

\* Process pid delivers 'error' in this step; 'exit'; one of the two.
ErrorSignal(pid) == ~processes[pid].errored /\ processes'[pid].errored
ExitSignal(pid) == ~processes[pid].exited /\ processes'[pid].exited
Signal(pid) == ErrorSignal(pid) \/ ExitSignal(pid)

\* The records of run r in the execution log that end it, and its error
\* records.
ErrorRecords(r) == {i \in 1..Len(errorLog) : errorLog[i].run = r}

\* C11: a run whose process delivered 'error' has an execution_end record
\* with a non-zero exit code and exactly one ErrorRecord, the run is no
\* longer the current one, and the 'error' callback throws nothing,
\* whatever the order of 'error' and 'exit'.
C11_SpawnFailureIsFailedRun ==
    /\ [](\A pid \in 1..Len(processes) :
            processes[pid].errored =>
                /\ \E i \in EndRecords(pid) : executionLog[i].exitCode # Num(0)
                /\ Cardinality(ErrorRecords(pid)) = 1
                /\ ~(currentExecution.active /\ currentExecution.run = pid))
    /\ [][\A pid \in 1..Len(processes) : ErrorSignal(pid) => ~uncaught']_vars

\* C13: a signal of the process of a run that is no longer current (it
\* completed or was superseded) changes neither the run that is current
\* nor the logs, and schedules nothing.
C13_TerminalRunSignalsIgnored ==
    [][\A pid \in 1..Len(processes) :
        (Signal(pid) /\ currentExecution.run # pid) =>
            UNCHANGED <<currentExecution, executionLog, errorLog, saveTimeout>>]_vars

\* Process pid delivers a chunk of data in this step.
DataDelivered(pid) == processes'[pid].chunks = processes[pid].chunks + 1

\* C16: the accumulators of the current run grow only by the chunks of the
\* process attached to it: a chunk delivered by another run's process
\* leaves them unchanged.
C16_OnlyOwnChunksAccumulated ==
    [][\A pid \in 1..Len(processes) :
        (DataDelivered(pid) /\ currentExecution.run # pid) =>
            UNCHANGED currentExecution]_vars

\* C17: the execution_end record appended for a superseded run has exit
\* code 1 and the error "Aborted by new execution", whatever the
\* superseded process had written.
C17_SupersededRecordedAborted ==
    [][(currentExecution.active /\ StartCalled) =>
        LET e == executionLog'[Len(executionLog) + 1]
        IN  /\ e.event = "execution_end"
            /\ e.run = currentExecution.run
            /\ e.exitCode = Num(1)
            /\ e.error = Str(<<"Aborted by new execution">>)]_vars

(***************************************************************************)
(* Identity: document events of the Python files and the setStudentId      *)
(* command, the timer and the writes, no I/O failing.                      *)
(***************************************************************************)
NextIdentity ==
    \/ TextDocumentChanged(PythonDocs, StoreEvents, MaxEdits, {"ok"})
    \/ StudentIdCommand
    \/ DelayElapses
    \/ TimerFires({"ok"})
    \/ WriteCompletes({TRUE})

SpecIdentity == Init /\ [][NextIdentity]_vars

\* C12: the file name of every write in flight is made of the student id,
\* the base name of the source file and the session id that its payload
\* carries, with a part number of at least 1.
C12_NameMatchesPayload ==
    \A w \in pending :
        /\ w.path.file.studentId = w.data.studentId
        /\ w.path.file.baseName = DocInfo[w.data.fileName].baseName
        /\ w.path.file.sessionId = w.data.sessionId
        /\ w.path.part >= 1

\* C14: at most one asynchronous write is in flight.
C14_OneWriteInFlight == Cardinality(pending) <= 1

\* The part numbers of a log file that some write has targeted: every
\* write is in flight or has completed.
Targeted(file) ==
    {q.part : q \in {p \in DOMAIN disk : p.file = file}}
    \cup {w.path.part : w \in {v \in pending : v.path.file = file}}

\* C20: a part of a log file is never rewritten once a write has targeted
\* a higher part of that file, and the part a flush targets is never lower
\* than a part targeted before.
C20_SupersededPartsKept ==
    [][/\ \A p \in DOMAIN disk :
            (\E n \in Targeted(p.file) : n > p.part) => disk'[p] = disk[p]
       /\ \A w \in pending' \ pending :
            \A n \in Targeted(w.path.file) : w.path.part >= n]_vars

\* A flush is requested in this step: the timer's callback, or the
\* immediate flush of a switch to another document.
FlushRequested == TimerStep \/ currentDocument' # currentDocument

\* C15: a flush requested while a write is in flight issues its own write,
\* to the current log file, with every record buffered at the request
\* (unless that flush itself fails at fs.statSync, which is reported).
C15_OverlappingFlushWrites ==
    [][(FlushRequested /\ pending # {}) =>
        \/ \E w \in pending' :
            /\ w.path.file = logFile'
            /\ w.data.fileName = currentDocument'
            /\ w.data.editLog = editLog
            /\ w.data.errorLog = errorLog
            /\ w.data.executionLog = executionLog
        \/ reported' = "Failed to save log"]_vars

\* Two writes to one path are in flight, the later with the full state.
C15_Witness ==
    /\ saveTimeout.state = "fired"
    /\ editLog # <<>>
    /\ \E w, v \in pending :
        /\ w.data = LogData(State)
        /\ v.path = w.path
        /\ v.data # w.data

(***************************************************************************)
(* Debounce: replacements in the Python files, with the delay of the      *)
(* timer elapsing in steps.                                                *)
(***************************************************************************)
DebounceEvents == {Event(<<Change("xy", 1)>>, TRUE)}

NextDebounce ==
    \/ TextDocumentChanged(PythonDocs, DebounceEvents, MaxEdits, {"ok"})
    \/ TimePasses
    \/ TimerFires({"ok"})
    \/ WriteCompletes({TRUE})

SpecDebounce == Init /\ [][NextDebounce]_vars

\* logEdit, which calls scheduleSave, is called in this step.
EditAppended == Len(editLog') > Len(editLog)

\* C18: at most one timer is pending; a call of scheduleSave leaves one
\* timer, with the whole delay to run; the timer's flush happens only
\* when the whole delay has run since the last call, and leaves no timer:
\* calls less than the delay apart end in one flush, the delay after the
\* last.
C18_Debounce ==
    /\ [](/\ hostTimers <= 1
          /\ hostTimers = 1 <=> saveTimeout.state = "armed")
    /\ [][EditAppended =>
            /\ saveTimeout' = [state |-> "armed", left |-> SaveDelayMs]
            /\ hostTimers' = 1]_vars
    /\ [][TimerStep => saveTimeout.left = 0 /\ hostTimers' = 0]_vars

\* Two calls and then one flush by the timer, with both records; no
\* flush by the timer between the calls.
C18_Witness ==
    /\ saveTimeout.state = "fired"
    /\ hostTimers = 0
    /\ Len(editLog) = 2
    /\ \E w \in pending : w.data.editLog = editLog
    /\ \A w \in pending : Len(w.data.editLog) \in {0, 2}
    /\ \A p \in DOMAIN disk : Len(disk[p].editLog) \in {0, 2}

(***************************************************************************)
(* A session: edits in the Python files, runs of one of them, the          *)
(* setStudentId command, the timer and the writes, with failing I/O.       *)
(***************************************************************************)
SessionEvents == {Event(<<Change("xy", 1)>>, TRUE)}

NextSession ==
    \/ TextDocumentChanged(PythonDocs, SessionEvents, SessionEdits, IoOutcomes)
    \/ RunCommand({"/w/a.py"}, ReadOutcomes, IoOutcomes, SplitRuns)
    \/ StderrData(StderrChunks, MaxChunks)
    \/ ProcessExit(ReadOutcomes)
    \/ ProcessError(ReadOutcomes)
    \/ StudentIdCommand
    \/ DelayElapses
    \/ TimerFires(IoOutcomes)
    \/ WriteCompletes(BOOLEAN)

SpecSession == Init /\ [][NextSession]_vars

\* a is a prefix of b.
IsPrefix(a, b) == Len(a) <= Len(b) /\ SubSeq(b, 1, Len(a)) = a

FinishStep ==
    /\ Len(executionLog') > Len(executionLog)
    /\ executionLog'[Len(executionLog) + 1].event = "execution_end"
FinishRecord == executionLog'[Len(executionLog) + 1]
FinishFailed == FinishRecord.exitCode # Num(0) \/ Truthy(FinishRecord.error)

\* C21: finishExecution on the current run appends exactly one ErrorRecord,
\* with event "python_execution_error" and language "python", when the
\* exit code is not 0 or there is an error text, and none otherwise.
C21_ErrorRecordIffFailure ==
    [][FinishStep =>
        IF FinishFailed
        THEN /\ Len(errorLog') = Len(errorLog) + 1
             /\ SubSeq(errorLog', 1, Len(errorLog)) = errorLog
             /\ errorLog'[Len(errorLog')].event = "python_execution_error"
             /\ errorLog'[Len(errorLog')].language = "python"
        ELSE errorLog' = errorLog]_vars

\* C22: whether or not the file can be read, a finish that derives an
\* ErrorRecord appends it (with the file's text, or empty), the run is no
\* longer current, a flush is scheduled, nothing is thrown, and no run
\* ever has a second execution_end record.
C22_UnreadableFileStillFinishes ==
    /\ [][FinishStep =>
            /\ FinishFailed =>
                /\ Len(errorLog') = Len(errorLog) + 1
                /\ errorLog'[Len(errorLog')].code
                       \in {Str(<<>>), Str(<<FinishRecord.file>>)}
            /\ ~(currentExecution'.active
                 /\ currentExecution'.run = FinishRecord.run)
            /\ saveTimeout'.state = "armed"
            /\ ~uncaught']_vars
    /\ [](\A r \in 1..(Len(processes) + 1) : Cardinality(EndRecords(r)) <= 1)

\* C24: executionLog alternates execution_start, execution_end, beginning
\* with execution_start, and a run is current exactly when there is one
\* more execution_start than execution_end.
C24_StartEndAlternate ==
    /\ \A i \in 1..Len(executionLog) :
        executionLog[i].event =
            IF i % 2 = 1 THEN "execution_start" ELSE "execution_end"
    /\ currentExecution.active <=> Len(executionLog) % 2 = 1

(***************************************************************************)
(* Document events of every document and surface, the setStudentId         *)
(* command, the timer and the writes.                                      *)
(***************************************************************************)
IgnoreEvents == {Event(<<Change("xy", 1)>>, TRUE), Event(<<Change("x", 0)>>, TRUE)}

NextIgnore ==
    \/ TextDocumentChanged(DOMAIN DocInfo, IgnoreEvents, MaxEdits, IoOutcomes)
    \/ StudentIdCommand
    \/ DelayElapses
    \/ TimerFires(IoOutcomes)
    \/ WriteCompletes(BOOLEAN)

SpecIgnore == Init /\ [][NextIgnore]_vars

\* The document is one the logger ignores, or is not a Python document.
IgnoredOrNotPython(fileName) ==
    LET doc == DocInfo[fileName]
    IN  \/ doc.languageId # "python"
        \/ doc.dotLogs
        \/ doc.json /\ (doc.sessionSuffix \/ doc.studentPrefix = studentId)
        \/ doc.scheme \in {"output", "terminal"}
        \/ doc.outputName

\* The state of the logger and of its files, timers and processes: all but
\* what the last callback reported or threw.
LoggerVars ==
    <<configStudentId, studentId, currentDocument, logFile, editLog, errorLog,
      executionLog, isSaving, saveTimeout, currentExecution, processes, disk,
      pending, keySaves, hostTimers>>

\* C23: a document-changed event of an ignored document or of a document
\* that is not a Python document changes nothing: no record, no switch of
\* the current document or log file, no write, no timer.
C23_IgnoredEventChangesNothing ==
    [][\A fileName \in DOMAIN DocInfo, e \in IgnoreEvents, io \in IoOutcomes :
        (/\ IgnoredOrNotPython(fileName)
         /\ Commit(DidChangeTextDocument(State, fileName, e.changes,
                                         e.hasSelection, io)))
            => UNCHANGED LoggerVars]_vars

\* A state in which an event that was not ignored would show: another
\* document is current, records are buffered, the timer is armed and a
\* write is in flight.
C23_Witness ==
    /\ currentDocument = "/w/a.py"
    /\ editLog # <<>>
    /\ saveTimeout.state = "armed"
    /\ pending # {}
    /\ studentId = "s1"

(***************************************************************************)
(* Content changes of every kind in one Python document, with a selection: *)
(* one character typed, one character deleted, a line break, a paste of    *)
(* two characters, a deletion of two characters, a replacement.            *)
(***************************************************************************)
ChangeEvents ==
    {Event(<<Change("x", 0)>>, TRUE), Event(<<Change("", 1)>>, TRUE),
     Event(<<Change("\n", 0)>>, TRUE), Event(<<Change("xy", 0)>>, TRUE),
     Event(<<Change("", 2)>>, TRUE), Event(<<Change("xy", 1)>>, TRUE)}

NextChanges ==
    \/ TextDocumentChanged({"/w/a.py"}, ChangeEvents, MaxBigEdits, {"ok"})
    \/ DelayElapses
    \/ TimerFires({"ok"})
    \/ WriteCompletes({TRUE})

SpecChanges == Init /\ [][NextChanges]_vars

\* C25: every content change of a Python document that is not ignored
\* appends exactly one record to editLog, whatever the length of the
\* inserted text and of the replaced range.
C25_EveryChangeRecorded ==
    [][\A e \in ChangeEvents :
        Commit(DidChangeTextDocument(State, "/w/a.py", e.changes,
                                     e.hasSelection, "ok"))
            => Len(editLog') = Len(editLog) + Len(e.changes)]_vars

====
